---- MODULE Spec2Model ----
(***************************************************************************)
(* Token issuance and validation (utils/token/token.go) and the user       *)
(* handlers that call them (handler/userHandler.go).                        *)
(*                                                                          *)
(* A Go string is a sequence of bytes.  A token string is the sequence of   *)
(* its dot-separated segments (strings.Split(tokenStr, ".")); a segment is  *)
(* the base64url text of a JSON header, of a JSON claims object, of a MAC,  *)
(* or text that does not decode.  HMAC-SHA256 is a collision-free function  *)
(* of (algorithm, key, signing input).  Time is the Unix time in seconds.   *)
(***************************************************************************)
EXTENDS Integers, Sequences, FiniteSets, TLC

VARIABLES
    now,        \* time.Now().Unix()
    ticks,      \* number of clock steps taken so far
    JwtToken,   \* the package variable JwtToken (the signing key)
    users,      \* the user repository's rows, by id
    issued,     \* every token returned by CreateToken, with the call's inputs
    creating,   \* a CreateToken call between time.Now() and SignedString
    pending,    \* a GET /api/users request between the middleware and fetch
    last,       \* the ValidateToken call that returned at this clock reading
    resp        \* the HTTP response written at this clock reading

vars == <<now, ticks, JwtToken, users, issued, creating, pending, last, resp>>

----------------------------------------------------------------------------
(* Bounds of the model *)

MaxTicks == 2
MaxIssued == 1
MaxUsers == 1

(* Program constants *)

Hour == 3600
TokenHours == 12

\* time.Hour * 12, in seconds
TokenTTL == Hour * TokenHours

\* var JwtToken = []byte("jwtToken")
SigningKey == "jwtToken"

\* a nil pointer / nil error, and a non-nil one
Nil == <<>>
Some(x) == <<x>>

----------------------------------------------------------------------------
(* Strings: byte sequences *)

Admin == <<97, 100, 109, 105, 110>>                \* "admin"
UserRole == <<117, 115, 101, 114>>                 \* "user"
EmailA == <<97, 64, 101, 120, 97, 109, 112, 108, 101, 46, 99, 111, 109>>
                                                   \* "a@example.com"
EmailBad == <<195, 169, 255, 64, 120>>             \* e-acute, \xff, "@x": not UTF-8
EmptyString == <<>>

Emails == {EmailA, EmailBad}
Roles == {Admin, UserRole}

\* U+FFFD in UTF-8
ReplacementChar == <<239, 191, 189>>

\* unicode/utf8: the length of the encoding a lead byte announces, 0 if none
RuneNeed(b) ==
    IF b < 128 THEN 1
    ELSE IF b \in 194..223 THEN 2
    ELSE IF b \in 224..239 THEN 3
    ELSE IF b \in 240..244 THEN 4
    ELSE 0

\* unicode/utf8 acceptRanges: the range of the second byte after lead byte b
SecondLo(b) == IF b = 224 THEN 160 ELSE IF b = 240 THEN 144 ELSE 128
SecondHi(b) == IF b = 237 THEN 159 ELSE IF b = 244 THEN 143 ELSE 191

\* utf8.DecodeRuneInString: the size of the valid rune s starts with, 0 when
\* it starts with an invalid byte (RuneError, size 1)
RuneLen(s) ==
    LET n == RuneNeed(s[1]) IN
    IF n = 0 \/ Len(s) < n THEN 0
    ELSE IF n = 1 THEN 1
    ELSE IF /\ s[2] \in SecondLo(s[1])..SecondHi(s[1])
            /\ \A k \in 3..n : s[k] \in 128..191
         THEN n
         ELSE 0

\* utf8.ValidString
RECURSIVE ValidUTF8(_)
ValidUTF8(s) ==
    IF s = <<>> THEN TRUE
    ELSE LET n == RuneLen(s) IN
         n > 0 /\ ValidUTF8(SubSeq(s, n + 1, Len(s)))

\* encoding/json, encodeState.string followed by the decoder's unquote: every
\* byte that starts no valid rune is written as \ufffd and read back as U+FFFD
RECURSIVE JSONString(_)
JSONString(s) ==
    IF s = <<>> THEN <<>>
    ELSE LET n == RuneLen(s) IN
         IF n = 0
         THEN ReplacementChar \o JSONString(Tail(s))
         ELSE SubSeq(s, 1, n) \o JSONString(SubSeq(s, n + 1, Len(s)))

----------------------------------------------------------------------------
(* Token strings *)

\* jwt.StandardClaims error bits carried by a *jwt.ValidationError
ErrorKinds ==
    {"Malformed", "Unverifiable", "SignatureInvalid", "Expired", "IssuedAt",
     "NotValidYet"}

\* the signing methods of the model's tokens that the library registers
RegisteredAlgs == {"HS256", "none"}

\* base64url(JSON) of {"alg": alg, "typ": "JWT"}
HeaderSeg(alg) == [seg |-> "header", alg |-> alg]

\* type Claims: Email, Role and the embedded jwt.StandardClaims fields the
\* validation reads (exp, iat, nbf; 0 is "omitempty": absent)
MakeClaims(email, role, exp, iat, nbf) ==
    [email |-> email, role |-> role, exp |-> exp, iat |-> iat, nbf |-> nbf]

\* json.Unmarshal of an object without any of the fields
ZeroClaims == MakeClaims(EmptyString, EmptyString, 0, 0, 0)

\* json.Marshal(claims), base64url-encoded: strings are coerced to UTF-8
ClaimsSeg(c) ==
    [seg |-> "claims",
     obj |-> MakeClaims(JSONString(c.email), JSONString(c.role), c.exp, c.iat,
                        c.nbf)]

\* HMAC under method alg of the signing input msg (header "." claims)
HMAC(alg, key, msg) == [alg |-> alg, key |-> key, msg |-> msg, delta |-> 0]

\* EncodeSegment(mac): the base64url text of a 32-byte MAC is 43 characters,
\* the last one carrying 4 bits of the MAC and 2 trailing bits, written as 0
SigSeg(mac) == [seg |-> "sig", bytes |-> mac, trail |-> 0]

\* text with a character outside the base64url alphabet
JunkSeg == [seg |-> "junk"]

\* the empty text
EmptySeg == [seg |-> "empty"]

\* DecodeSegment + json.Unmarshal succeed on a header or claims segment only
IsJSONObject(s) == s.seg \in {"header", "claims"}

\* token.Header["alg"].(string)
HeaderAlg(s) == IF s.seg = "header" THEN Some(s.alg) ELSE Nil

\* json.NewDecoder(claimBytes).Decode(&claims): unknown fields are ignored
DecodeClaims(s) == IF s.seg = "claims" THEN s.obj ELSE ZeroClaims

\* DecodeSegment(signature): base64.URLEncoding.DecodeString is not strict,
\* the trailing bits of the last character are dropped
DecodeSignature(s) ==
    IF s.seg = "sig" THEN Some(s.bytes)
    ELSE IF s.seg = "junk" THEN Nil
    ELSE Some(s)

\* a Verify that compares the signing input and not the key
MethodVerifyAnyKey(alg, msg, sig, key) ==
    /\ alg = "HS256"
    /\ sig.seg = "sig"
    /\ sig.bytes.msg = msg /\ sig.bytes.delta = 0

\* SigningMethodHMAC.Verify; "none" refuses any key but the unsafe marker
MethodVerify(alg, msg, sig, key) ==
    /\ alg = "HS256"
    /\ DecodeSignature(sig) # Nil
    /\ DecodeSignature(sig)[1] = HMAC(alg, key, msg)

\* an expiry check that already rejects at the instant of expiry
StandardClaimsErrorsStrict(c, t) ==
    (IF c.exp # 0 /\ ~(t < c.exp) THEN {"Expired"} ELSE {})
    \cup (IF c.iat # 0 /\ ~(t >= c.iat) THEN {"IssuedAt"} ELSE {})
    \cup (IF c.nbf # 0 /\ ~(t >= c.nbf) THEN {"NotValidYet"} ELSE {})

\* verifyExp / verifyIat / verifyNbf with required = false
StandardClaimsErrors(c, t) ==
    (IF c.exp # 0 /\ ~(t <= c.exp) THEN {"Expired"} ELSE {})
    \cup (IF c.iat # 0 /\ ~(t >= c.iat) THEN {"IssuedAt"} ELSE {})
    \cup (IF c.nbf # 0 /\ ~(t >= c.nbf) THEN {"NotValidYet"} ELSE {})

\* the (token, err) a parse returns; claims are Nil where the token has none
ParseResult(valid, claims, flags) ==
    [valid |-> valid, claims |-> claims,
     err |-> IF flags = {} THEN Nil ELSE Some(flags)]

\* a parse that reports a string it cannot split or decode as unverifiable
ParseWithClaimsUnverifiable(tokenStr, t, key) ==
    IF Len(tokenStr) # 3 THEN ParseResult(FALSE, Nil, {"Unverifiable"})
    ELSE IF ~IsJSONObject(tokenStr[1]) \/ ~IsJSONObject(tokenStr[2])
    THEN ParseResult(FALSE, Nil, {"Unverifiable"})
    ELSE LET alg == HeaderAlg(tokenStr[1])
             claims == DecodeClaims(tokenStr[2])
         IN
         IF alg = Nil \/ alg[1] \notin RegisteredAlgs
         THEN ParseResult(FALSE, Some(claims), {"Unverifiable"})
         ELSE LET flags ==
                    StandardClaimsErrors(claims, t)
                    \cup (IF MethodVerify(alg[1], SubSeq(tokenStr, 1, 2),
                                          tokenStr[3], key)
                          THEN {} ELSE {"SignatureInvalid"})
              IN ParseResult(flags = {}, Some(claims), flags)

\* jwt.ParseWithClaims(tokenStr, &Claims{}, jToken) at time t, jToken
\* returning key
ParseWithClaims(tokenStr, t, key) ==
    IF Len(tokenStr) # 3 THEN ParseResult(FALSE, Nil, {"Malformed"})
    ELSE IF ~IsJSONObject(tokenStr[1]) \/ ~IsJSONObject(tokenStr[2])
    THEN ParseResult(FALSE, Nil, {"Malformed"})
    ELSE LET alg == HeaderAlg(tokenStr[1])
             claims == DecodeClaims(tokenStr[2])
         IN
         IF alg = Nil \/ alg[1] \notin RegisteredAlgs
         THEN ParseResult(FALSE, Some(claims), {"Unverifiable"})
         ELSE LET flags ==
                    StandardClaimsErrors(claims, t)
                    \cup (IF MethodVerify(alg[1], SubSeq(tokenStr, 1, 2),
                                          tokenStr[3], key)
                          THEN {} ELSE {"SignatureInvalid"})
              IN ParseResult(flags = {}, Some(claims), flags)

\* a CreateToken that fills Email with the role and Role with the email
CreateTokenSwapped(email, role, t, key) ==
    LET claims == MakeClaims(role, email, t + TokenTTL, 0, 0)
        head == <<HeaderSeg("HS256"), ClaimsSeg(claims)>>
    IN [tokenStr |-> Append(head, SigSeg(HMAC("HS256", key, head))),
        err |-> Nil]

\* token.CreateToken, with t the value of time.Now().Unix()
CreateToken(email, role, t, key) ==
    LET claims == MakeClaims(email, role, t + TokenTTL, 0, 0)
        head == <<HeaderSeg("HS256"), ClaimsSeg(claims)>>
    IN [tokenStr |-> Append(head, SigSeg(HMAC("HS256", key, head))),
        err |-> Nil]

\* a ValidateToken that tests token.Valid before err and so returns the nil
\* error of a token that is not valid
ValidateTokenSilent(tokenStr, t, key) ==
    LET parsed == ParseWithClaims(tokenStr, t, key) IN
    IF ~parsed.valid THEN [claims |-> Nil, err |-> Nil]
    ELSE IF parsed.err # Nil THEN [claims |-> Nil, err |-> parsed.err]
    ELSE [claims |-> parsed.claims, err |-> Nil]

\* a ValidateToken that also looks the token's email up in the repository
ValidateTokenRevocable(tokenStr, t, key) ==
    LET parsed == ParseWithClaims(tokenStr, t, key) IN
    IF parsed.err # Nil THEN [claims |-> Nil, err |-> parsed.err]
    ELSE IF \A id \in DOMAIN users :
                \/ users[id] = Nil
                \/ JSONString(users[id][1].email) # parsed.claims[1].email
    THEN [claims |-> Nil, err |-> Some({"Unverifiable"})]
    ELSE [claims |-> parsed.claims, err |-> Nil]

\* token.ValidateToken
ValidateToken(tokenStr, t, key) ==
    LET parsed == ParseWithClaims(tokenStr, t, key) IN
    IF parsed.err # Nil THEN [claims |-> Nil, err |-> parsed.err]
    ELSE IF ~parsed.valid THEN [claims |-> Nil, err |-> parsed.err]
    ELSE [claims |-> parsed.claims, err |-> Nil]

----------------------------------------------------------------------------
(* Inputs: the strings a caller can present as a token *)

OtherKey == "secret"

\* a token built outside the service, under any header and key
ForeignToken(alg, claims, key) ==
    LET head == <<HeaderSeg(alg), ClaimsSeg(claims)>> IN
    Append(head, SigSeg(HMAC(alg, key, head)))

\* an issued token with its third segment replaced
WithSignature(tokenStr, sig) == <<tokenStr[1], tokenStr[2], sig>>

\* one character of the signature segment altered: in the trailing bits of
\* the last character, in bits of the MAC, or to a character outside the
\* alphabet
AlterTrailingBits(tokenStr) ==
    WithSignature(tokenStr, [tokenStr[3] EXCEPT !.trail = 1])
AlterMacBits(tokenStr) ==
    WithSignature(tokenStr, [tokenStr[3] EXCEPT !.bytes.delta = 1])
AlterToIllegal(tokenStr) == WithSignature(tokenStr, JunkSeg)

SignatureAlterations(tokenStr) ==
    {AlterTrailingBits(tokenStr), AlterMacBits(tokenStr),
     AlterToIllegal(tokenStr)}

\* the claims segment rewritten to role "admin", signature kept
Escalated(tokenStr) ==
    <<tokenStr[1],
      ClaimsSeg([DecodeClaims(tokenStr[2]) EXCEPT !.role = Admin]),
      tokenStr[3]>>

\* "Bearer " written before the token, and the token cut after the claims
WithBearerPrefix(tokenStr) == <<JunkSeg, tokenStr[2], tokenStr[3]>>
Truncated(tokenStr) == SubSeq(tokenStr, 1, 2)

AdminForever == MakeClaims(EmailA, Admin, 0, 0, 0)
AdminLater == MakeClaims(EmailA, Admin, 0, 20 * TokenTTL, 20 * TokenTTL)
AdminStale == MakeClaims(EmailA, Admin, 1, 0, 0)

\* tokens signed with another secret, or under another method
ForgedTokens ==
    {ForeignToken("HS256", AdminForever, OtherKey),
     ForeignToken("HS256", AdminStale, OtherKey),
     ForeignToken("HS256", AdminLater, OtherKey),
     ForeignToken("none", AdminForever, OtherKey),
     <<HeaderSeg("none"), ClaimsSeg(AdminForever), EmptySeg>>,
     <<HeaderSeg("XX"), ClaimsSeg(AdminForever), EmptySeg>>}

\* "", "..", "x.y.z" with nothing decodable, a header alone
StaticMalformed ==
    {<<EmptySeg>>, <<EmptySeg, EmptySeg, EmptySeg>>,
     <<JunkSeg, JunkSeg, JunkSeg>>, <<HeaderSeg("HS256")>>,
     <<HeaderSeg("HS256"), JunkSeg, EmptySeg>>}

IssuedStrings == {i.tokenStr : i \in issued}

DerivedFrom(tokenStr) ==
    SignatureAlterations(tokenStr)
    \cup {Escalated(tokenStr), WithBearerPrefix(tokenStr),
          Truncated(tokenStr)}

\* every Authorization header value / ValidateToken argument of the model
Headers ==
    IssuedStrings \cup UNION {DerivedFrom(t) : t \in IssuedStrings}
    \cup ForgedTokens \cup StaticMalformed

\* the header or the claims segment does not decode to a JSON object
HeadUndecodable(tokenStr) ==
    \E k \in 1..2 : tokenStr[k].seg \in {"junk", "empty", "sig"}

\* not three dot-separated segments, or a segment that does not decode
StructurallyMalformed(tokenStr) ==
    \/ Len(tokenStr) # 3
    \/ HeadUndecodable(tokenStr)
    \/ tokenStr[3].seg = "junk"

----------------------------------------------------------------------------
(* State *)

AdminCaps == <<65, 100, 109, 105, 110>>            \* "Admin"

User(email, role) == [email |-> email, role |-> role]

\* the request bodies that bind to an entities.User
UserInputs == {User(EmailA, Admin), User(EmailBad, AdminCaps)}

UserIds == 1..MaxUsers

NoCall == Nil
NoResponse == Nil

\* one second, and the lifetime of a token
TickSteps == {1, TokenTTL}

\* the process starts; the repository holds the rows earlier runs left
Init ==
    /\ now = 1
    /\ ticks = 0
    /\ JwtToken = SigningKey
    /\ users \in [UserIds -> {Nil} \cup {Some(u) : u \in UserInputs}]
    /\ issued = {}
    /\ creating = NoCall
    /\ pending = Nil
    /\ last = NoCall
    /\ resp = NoResponse

\* the clock advances
Tick(d) ==
    /\ ticks < MaxTicks
    /\ now' = now + d
    /\ ticks' = ticks + 1
    /\ last' = NoCall
    /\ resp' = NoResponse
    /\ UNCHANGED <<JwtToken, users, issued, creating, pending>>

----------------------------------------------------------------------------
(* Calls of the token package *)

\* CreateToken up to the construction of the claims: reads the clock
CreateTokenBegin(email, role) ==
    /\ creating = NoCall
    /\ Cardinality(issued) < MaxIssued
    /\ creating' = Some([email |-> email, role |-> role, t |-> now])
    /\ UNCHANGED <<now, ticks, JwtToken, users, issued, pending, last, resp>>

\* a CreateToken that leaves another value in JwtToken
CreateTokenEndRekey ==
    /\ creating # NoCall
    /\ LET c == creating[1]
           r == CreateToken(c.email, c.role, c.t, JwtToken)
       IN issued' = issued \cup
              {[tokenStr |-> r.tokenStr, email |-> c.email, role |-> c.role,
                at |-> c.t]}
    /\ creating' = NoCall
    /\ JwtToken' = OtherKey
    /\ UNCHANGED <<now, ticks, users, pending, last, resp>>

\* CreateToken from NewWithClaims to its return: reads JwtToken
CreateTokenEnd ==
    /\ creating # NoCall
    /\ LET c == creating[1]
           r == CreateToken(c.email, c.role, c.t, JwtToken)
       IN issued' = issued \cup
              {[tokenStr |-> r.tokenStr, email |-> c.email, role |-> c.role,
                at |-> c.t]}
    /\ creating' = NoCall
    /\ JwtToken' = JwtToken
    /\ UNCHANGED <<now, ticks, users, pending, last, resp>>

\* one ValidateToken call: reads the clock and JwtToken
ValidateTokenCall(tokenStr) ==
    /\ last' = Some([tokenStr |-> tokenStr,
                     result |-> ValidateToken(tokenStr, now, JwtToken)])
    /\ JwtToken' = JwtToken
    /\ UNCHANGED <<now, ticks, users, issued, creating, pending, resp>>

NextToken ==
    \/ \E d \in TickSteps : Tick(d)
    \/ \E e \in Emails, r \in Roles : CreateTokenBegin(e, r)
    \/ CreateTokenEnd
    \/ \E h \in Headers : ValidateTokenCall(h)

\* the token package called on its own, the repository left empty
InitToken == Init /\ \A id \in UserIds : users[id] = Nil

SpecToken == InitToken /\ [][NextToken]_vars

----------------------------------------------------------------------------
(* The user repository (entities.UserRepository) *)

FreeIds == {id \in UserIds : users[id] = Nil}

\* the rows Login can return for an email
LoginMatches(email) ==
    {users[id][1] : id \in {k \in UserIds : users[k] # Nil
                                             /\ users[k][1].email = email}}

\* Register and Create insert a row, Update replaces one, Delete removes one
RepoInsert(id, user) == [users EXCEPT ![id] = Some(user)]
RepoUpdate(id, user) == [users EXCEPT ![id] = Some(user)]
RepoDelete(id) == [users EXCEPT ![id] = Nil]

\* Fetch returns every row
RepoFetch == {users[id][1] : id \in {k \in UserIds : users[k] # Nil}}

----------------------------------------------------------------------------
(* The handlers *)

StatusOK == 200
StatusBadRequest == 400
StatusUnauthorized == 401
StatusInternalServerError == 500

\* c.JSON(status, gin.H{...}): the fields of the body the handlers differ in
Response(route, status) ==
    [route |-> route, status |-> status, panicked |-> FALSE, token |-> Nil,
     data |-> Nil, listed |-> Nil, hdr |-> Nil, bound |-> TRUE,
     repoErr |-> FALSE]

\* the handler panicked before writing a response
Panic(route) == [Response(route, 0) EXCEPT !.panicked = TRUE]

\* a login that builds the token from the request before it looks at the
\* repository's error
loginTokenOnError(bind, repoOk, email) ==
    /\ pending' = pending
    /\ LET matches == LoginMatches(email)
           early == CreateToken(email, EmptyString, now, JwtToken)
       IN
       IF bind = "other"
       THEN /\ resp' = Some([Panic("login") EXCEPT !.bound = FALSE])
            /\ UNCHANGED <<issued, users>>
       ELSE IF bind = "validation"
       THEN /\ resp' = Some([Response("login", StatusInternalServerError)
                               EXCEPT !.bound = FALSE])
            /\ UNCHANGED <<issued, users>>
       ELSE IF ~repoOk \/ matches = {}
       THEN /\ resp' = Some([Response("login", StatusInternalServerError)
                               EXCEPT !.repoErr = TRUE,
                                      !.token = Some(early.tokenStr)])
            /\ issued' = issued \cup
                   {[tokenStr |-> early.tokenStr, email |-> email,
                     role |-> EmptyString, at |-> now]}
            /\ UNCHANGED users
       ELSE \E userLogin \in matches :
            LET t == CreateToken(userLogin.email, userLogin.role, now,
                                 JwtToken)
            IN /\ Cardinality(issued) < MaxIssued
               /\ resp' = Some([Response("login", StatusOK)
                                  EXCEPT !.token = Some(t.tokenStr),
                                         !.data = Some(userLogin)])
               /\ issued' = issued \cup
                      {[tokenStr |-> t.tokenStr, email |-> userLogin.email,
                        role |-> userLogin.role, at |-> now]}
               /\ UNCHANGED users
    /\ UNCHANGED <<now, ticks, JwtToken, creating, last>>

\* login; bind is the outcome of c.ShouldBind: "ok", validator errors, or
\* an error of another type, which the type assertion panics on
login(bind, repoOk, email) ==
    /\ pending' = pending
    /\ LET matches == LoginMatches(email) IN
       IF bind = "other"
       THEN /\ resp' = Some([Panic("login") EXCEPT !.bound = FALSE])
            /\ UNCHANGED <<issued, users>>
       ELSE IF bind = "validation"
       THEN /\ resp' = Some([Response("login", StatusInternalServerError)
                               EXCEPT !.bound = FALSE])
            /\ UNCHANGED <<issued, users>>
       ELSE IF ~repoOk \/ matches = {}
       THEN /\ resp' = Some([Response("login", StatusInternalServerError)
                               EXCEPT !.repoErr = TRUE])
            /\ UNCHANGED <<issued, users>>
       ELSE \E userLogin \in matches :
            LET t == CreateToken(userLogin.email, userLogin.role, now,
                                 JwtToken)
            IN /\ Cardinality(issued) < MaxIssued
               /\ resp' = Some([Response("login", StatusOK)
                                  EXCEPT !.token = Some(t.tokenStr),
                                         !.data = Some(userLogin)])
               /\ issued' = issued \cup
                      {[tokenStr |-> t.tokenStr, email |-> userLogin.email,
                        role |-> userLogin.role, at |-> now]}
               /\ UNCHANGED users
    /\ UNCHANGED <<now, ticks, JwtToken, creating, last>>

\* register
register(bindOk, repoOk, user) ==
    /\ pending' = pending
    /\ IF ~bindOk
       THEN /\ resp' = Some([Response("register", StatusBadRequest)
                               EXCEPT !.bound = FALSE])
            /\ UNCHANGED <<issued, users>>
       ELSE IF ~repoOk \/ FreeIds = {}
       THEN /\ resp' = Some([Response("register", StatusInternalServerError)
                               EXCEPT !.repoErr = TRUE])
            /\ UNCHANGED <<issued, users>>
       ELSE \E id \in FreeIds :
            LET userData == user
                t == CreateToken(userData.email, userData.role, now, JwtToken)
            IN /\ Cardinality(issued) < MaxIssued
               /\ users' = RepoInsert(id, user)
               /\ resp' = Some([Response("register", StatusOK)
                                  EXCEPT !.token = Some(t.tokenStr),
                                         !.data = Some(userData)])
               /\ issued' = issued \cup
                      {[tokenStr |-> t.tokenStr, email |-> userData.email,
                        role |-> userData.role, at |-> now]}
    /\ UNCHANGED <<now, ticks, JwtToken, creating, last>>

\* m.JWTMiddleware() on the /api group, before the route's handler: a
\* request whose Authorization header does not validate is answered 401, any
\* other goes on to the handler of its route
JWTMiddleware(auth) ==
    /\ pending = Nil
    /\ LET claims == ValidateToken(auth, now, JwtToken) IN
       IF claims.err # Nil
       THEN /\ resp' = Some(Response("api", StatusUnauthorized))
            /\ pending' = pending
       ELSE /\ pending' = Some([auth |-> auth])
            /\ resp' = NoResponse
    /\ UNCHANGED <<now, ticks, JwtToken, users, issued, creating, last>>

\* a request the middleware let through; the route selects the handler
Reached == pending # Nil

\* the handler returns: the request is over
Respond(r) ==
    /\ resp' = Some(r)
    /\ pending' = Nil
    /\ UNCHANGED <<now, ticks, JwtToken, issued, creating, last>>

\* a fetch without the role check
fetchAnyRole(repoOk) ==
    /\ Reached
    /\ UNCHANGED users
    /\ IF ~repoOk
       THEN Respond([Response("fetch", StatusInternalServerError)
                       EXCEPT !.hdr = Some(pending[1].auth),
                              !.repoErr = TRUE])
       ELSE LET auth == pending[1].auth
                token == ValidateToken(auth, now, JwtToken).claims
            IN IF token = Nil
               THEN Respond([Panic("fetch") EXCEPT !.hdr = Some(auth)])
               ELSE Respond([Response("fetch", StatusOK)
                               EXCEPT !.hdr = Some(auth),
                                      !.listed = Some(RepoFetch)])

\* fetch users
fetch(repoOk) ==
    /\ Reached
    /\ UNCHANGED users
    /\ IF ~repoOk
       THEN Respond([Response("fetch", StatusInternalServerError)
                       EXCEPT !.hdr = Some(pending[1].auth),
                              !.repoErr = TRUE])
       ELSE LET auth == pending[1].auth
                token == ValidateToken(auth, now, JwtToken).claims
            IN IF token = Nil
               THEN Respond([Panic("fetch") EXCEPT !.hdr = Some(auth)])
               ELSE IF token[1].role # Admin
               THEN Respond([Response("fetch", StatusUnauthorized)
                               EXCEPT !.hdr = Some(auth)])
               ELSE Respond([Response("fetch", StatusOK)
                               EXCEPT !.hdr = Some(auth),
                                      !.listed = Some(RepoFetch)])

\* fetch user by id
fetchById(idOk, repoOk, id) ==
    /\ Reached
    /\ UNCHANGED users
    /\ IF ~idOk
       THEN Respond([Response("fetchById", StatusBadRequest)
                       EXCEPT !.bound = FALSE])
       ELSE IF ~repoOk \/ users[id] = Nil
       THEN Respond([Response("fetchById", StatusInternalServerError)
                       EXCEPT !.repoErr = TRUE])
       ELSE Respond(Response("fetchById", StatusOK))

\* create user
create(bindOk, repoOk, user) ==
    /\ Reached
    /\ IF ~bindOk
       THEN /\ Respond([Response("create", StatusBadRequest)
                          EXCEPT !.bound = FALSE])
            /\ UNCHANGED users
       ELSE IF ~repoOk \/ FreeIds = {}
       THEN /\ Respond([Response("create", StatusInternalServerError)
                          EXCEPT !.repoErr = TRUE])
            /\ UNCHANGED users
       ELSE \E id \in FreeIds :
            /\ users' = RepoInsert(id, user)
            /\ Respond(Response("create", StatusOK))

\* update user; a failed strconv.Atoi is ignored and leaves id 0
update(id, bindOk, repoOk, user) ==
    /\ Reached
    /\ IF ~bindOk
       THEN /\ Respond([Response("update", StatusBadRequest)
                          EXCEPT !.bound = FALSE])
            /\ UNCHANGED users
       ELSE IF ~repoOk \/ id \notin UserIds \/ users[id] = Nil
       THEN /\ Respond([Response("update", StatusInternalServerError)
                          EXCEPT !.repoErr = TRUE])
            /\ UNCHANGED users
       ELSE /\ users' = RepoUpdate(id, user)
            /\ Respond(Response("update", StatusOK))

\* delete user
delete(idOk, repoOk, id) ==
    /\ Reached
    /\ IF ~idOk
       THEN /\ Respond([Response("delete", StatusBadRequest)
                          EXCEPT !.bound = FALSE])
            /\ UNCHANGED users
       ELSE IF ~repoOk \/ users[id] = Nil
       THEN /\ Respond([Response("delete", StatusInternalServerError)
                          EXCEPT !.repoErr = TRUE])
            /\ UNCHANGED users
       ELSE /\ users' = RepoDelete(id)
            /\ Respond(Response("delete", StatusOK))

LoginEmails == {EmailA, EmailBad}

\* the inputs a handler reads after a step that failed do not matter: one
\* value stands for them
After(ok, S) == IF ok THEN S ELSE {CHOOSE x \in S : TRUE}

Next ==
    \/ \E d \in TickSteps : Tick(d)
    \/ \E bind \in {"ok", "validation", "other"} :
          \E repoOk \in After(bind = "ok", BOOLEAN) :
             \E email \in After(bind = "ok", LoginEmails) :
                login(bind, repoOk, email)
    \/ \E bindOk \in BOOLEAN :
          \E repoOk \in After(bindOk, BOOLEAN) :
             \E user \in After(bindOk /\ repoOk, UserInputs) :
                register(bindOk, repoOk, user)
    \/ \E auth \in Headers : JWTMiddleware(auth)
    \/ \E repoOk \in BOOLEAN : fetch(repoOk)
    \/ \E idOk \in BOOLEAN :
          \E repoOk \in After(idOk, BOOLEAN) :
             \E id \in After(idOk /\ repoOk, UserIds) :
                fetchById(idOk, repoOk, id)
    \/ \E bindOk \in BOOLEAN :
          \E repoOk \in After(bindOk, BOOLEAN) :
             \E user \in After(bindOk /\ repoOk, UserInputs) :
                create(bindOk, repoOk, user)
    \/ \E bindOk \in BOOLEAN :
          \E repoOk \in After(bindOk, BOOLEAN) :
             \E id \in After(bindOk /\ repoOk, 0..MaxUsers) :
                \E user \in After(bindOk /\ repoOk, UserInputs) :
                   update(id, bindOk, repoOk, user)
    \/ \E idOk \in BOOLEAN :
          \E repoOk \in After(idOk, BOOLEAN) :
             \E id \in After(idOk /\ repoOk, UserIds) :
                delete(idOk, repoOk, id)

Spec == Init /\ [][Next]_vars

----------------------------------------------------------------------------
(* Claims about the token package, checked under SpecToken *)

\* the issued tokens the call recorded in last was given
LastIsIssued == IF last = NoCall THEN {}
                ELSE {i \in issued : i.tokenStr = last[1].tokenStr}

C2_ValidityWindow ==
    /\ \A i \in issued : DecodeClaims(i.tokenStr[2]).exp = i.at + 12 * 3600
    /\ \A i \in LastIsIssued :
          IF now <= i.at + 12 * 3600
          THEN last[1].result.err = Nil /\ last[1].result.claims # Nil
          ELSE /\ last[1].result.err = Some({"Expired"})
               /\ last[1].result.claims = Nil

C2_Witness ==
    \E i \in LastIsIssued :
        /\ now > i.at + 12 * 3600
        /\ last[1].result.err = Some({"Expired"})

\* the call recorded in last failed with an error of the kind, and no claims
LastFailedWith(kind) ==
    /\ last[1].result.claims = Nil
    /\ last[1].result.err # Nil
    /\ kind \in last[1].result.err[1]

\* tokens signed with a secret that is not the verifying key
SignedWithOtherSecret ==
    {t \in ForgedTokens : /\ t[1].alg = "HS256" /\ t[3].seg = "sig"
                          /\ t[3].bytes.key # JwtToken}

C5_ClaimsOrError ==
    last # NoCall =>
        LET r == last[1].result IN
        \/ r.claims # Nil /\ r.err = Nil
        \/ /\ r.claims = Nil
           /\ r.err # Nil
           /\ r.err[1] # {} /\ r.err[1] \subseteq ErrorKinds
           /\ "Malformed" \in r.err[1] => r.err[1] = {"Malformed"}
           /\ "Expired" \in r.err[1] =>
                  /\ Len(last[1].tokenStr) = 3
                  /\ now > DecodeClaims(last[1].tokenStr[2]).exp

C5_Witness ==
    /\ last # NoCall
    /\ last[1].result.claims = Nil
    /\ last[1].result.err = Some({"Expired", "SignatureInvalid"})

\* C8: no CreateToken or ValidateToken call changes the signing key, and
\* every call, whatever calls it was interleaved with, returned what the
\* function returns for its inputs, its clock reading and the unchanged key.
C8_NoSideEffects ==
    /\ JwtToken = SigningKey
    /\ \A i \in issued :
          i.tokenStr = CreateToken(i.email, i.role, i.at, SigningKey).tokenStr
    /\ last # NoCall =>
          last[1].result = ValidateToken(last[1].tokenStr, now, SigningKey)

C8_Witness ==
    /\ creating # NoCall /\ creating[1].t < now
    /\ last # NoCall
    /\ JwtToken = SigningKey

----------------------------------------------------------------------------
(* Claims about the handlers, checked under Spec *)

\* the response of the fetch handler, if it is the one just written
FetchResponse ==
    IF resp # NoResponse /\ resp[1].route = "fetch" THEN {resp[1]} ELSE {}

\* the claims of the header a fetch response answers, validated now
HeaderClaims(r) == ValidateToken(r.hdr[1], now, JwtToken).claims

\* C6 as stated: fetch answers 200 with the user list only to a header that
\* holds a currently valid token whose role is exactly "admin"; a valid token
\* with any other role is answered 401, and no users are disclosed.
C6_OtherRoleAlways401 ==
    \A r \in FetchResponse :
        /\ r.status = StatusOK =>
              HeaderClaims(r) # Nil /\ HeaderClaims(r)[1].role = Admin
        /\ r.listed # Nil => r.status = StatusOK
        /\ HeaderClaims(r) # Nil /\ HeaderClaims(r)[1].role # Admin =>
              r.status = StatusUnauthorized /\ r.listed = Nil

\* C6 amended: fetch answers 200 with the user list only to a header that
\* holds a currently valid token whose role is exactly "admin"; a valid token
\* with any other role is answered 401, or 500 when the repository's Fetch,
\* which runs before the role check, failed; no users are disclosed to it.
C6_AdminOnly ==
    \A r \in FetchResponse :
        /\ r.status = StatusOK =>
              HeaderClaims(r) # Nil /\ HeaderClaims(r)[1].role = Admin
        /\ r.listed # Nil => r.status = StatusOK
        /\ HeaderClaims(r) # Nil /\ HeaderClaims(r)[1].role # Admin =>
              /\ r.status = IF r.repoErr THEN StatusInternalServerError
                            ELSE StatusUnauthorized
              /\ r.listed = Nil

C6_Witness ==
    \E r \in FetchResponse :
        /\ r.status = StatusUnauthorized
        /\ HeaderClaims(r) # Nil
        /\ HeaderClaims(r)[1].role = AdminCaps

\* an issued token validates in the current state
TokenValid(i) == ValidateToken(i.tokenStr, now, JwtToken).err = Nil

\* the token's expiresAt
ExpiresAt(i) == DecodeClaims(i.tokenStr[2]).exp

SessionResponse ==
    IF resp # NoResponse /\ resp[1].route \in {"login", "register"}
    THEN {resp[1]} ELSE {}

\* C9: a login or register response carries a token only when the request
\* bound and the repository returned no error, and the token is then the one
\* CreateToken makes from the email and role the repository returned; when
\* binding or the repository failed the response has no token and is not 200.
C9_TokenOnlyOnSuccess ==
    \A r \in SessionResponse :
        /\ r.token # Nil =>
              /\ r.bound /\ ~r.repoErr /\ r.status = StatusOK
              /\ r.data # Nil
              /\ r.token # Nil
              /\ DecodeClaims(r.token[1][2]).email = JSONString(r.data[1].email)
              /\ DecodeClaims(r.token[1][2]).role = JSONString(r.data[1].role)
              /\ \E id \in UserIds : users[id] = r.data
        /\ ~r.bound \/ r.repoErr =>
              r.token = Nil /\ r.status # StatusOK
        /\ r.status = StatusOK => r.token # Nil

C9_Witness ==
    \E r \in SessionResponse :
        /\ r.route = "login"
        /\ r.token # Nil
        /\ r.data = Some(User(EmailBad, AdminCaps))

\* C10: whatever header reaches fetch, the handler answers 200, 401 or 500 and
\* never dereferences nil claims.
C10_FetchNeverPanics ==
    \A r \in FetchResponse :
        /\ ~r.panicked
        /\ r.status \in {StatusOK, StatusUnauthorized,
                         StatusInternalServerError}

====
